---- MODULE Spec2Model ----
(***************************************************************************)
(* Model of cytomat.serial_port.SerialPort: the transaction engine over a  *)
(* serial line (communicate, check_prefix_and_strip, issue_action_command, *)
(* issue_status_command, close, open), several caller threads, the device  *)
(* at the other end of the line, and a discrete clock for the configured   *)
(* timeout.                                                                *)
(*                                                                         *)
(* A Python str is a sequence of one-character strings, a Python bytes     *)
(* object a sequence of integers 0..255.                                   *)
(***************************************************************************)
EXTENDS Integers, Sequences, FiniteSets, TLC

\* ------------------------------------------------------------------ bounds

\* Number of caller threads sharing one SerialPort; each makes one call (the
\* lock has no owner and a call leaves nothing behind in its thread, so a
\* thread's second call is the first call of a further thread).
NumThreads == 2
\* Number of bursts of bytes (solicited or not) the device puts on the line.
MaxBursts == 1
\* Number of bursts the device sends in SpecTimed.
MaxTimedBursts == 2
\* The configured timeout (self.timeout, also the port's read timeout), in ticks.
Timeout == 1
\* Longest remainder drawn after the head of a response in SpecClassify.
MaxTailLen == 3

\* Bytes of raw_response, and unread bytes of the input buffer, kept in the
\* specification of termination.
MaxWindow == 2

Threads == 1..NumThreads

\* ------------------------------------------------------- characters, bytes

\* The terminator byte b"\r".
CR == 13

\* The ASCII table restricted to the characters the model uses.
AsciiTable ==
  << <<"\n", 10>>, <<" ", 32>>, <<"+", 43>>, <<"-", 45>>, <<"0", 48>>,
     <<"1", 49>>, <<"5", 53>>, <<":", 58>>, <<"A", 65>>, <<"_", 95>>,
     <<"b", 98>>, <<"c", 99>>, <<"e", 101>>, <<"h", 104>>, <<"k", 107>>,
     <<"m", 109>>, <<"o", 111>>, <<"r", 114>>, <<"s", 115>>, <<"v", 118>>,
     <<"x", 120>>, <<"y", 121>>, <<"z", 122>>, <<"\r", 13>> >>

AsciiChars == { AsciiTable[i][1] : i \in 1..Len(AsciiTable) }
AsciiBytes == { AsciiTable[i][2] : i \in 1..Len(AsciiTable) }

\* Stands for a character outside ASCII (U+00E9); the byte 255 (0xFF) is the
\* byte outside ASCII.
NonAsciiChar == "E9"

OrdOf(c) == AsciiTable[CHOOSE i \in 1..Len(AsciiTable) : AsciiTable[i][1] = c][2]
ChrOf(b) == AsciiTable[CHOOSE i \in 1..Len(AsciiTable) : AsciiTable[i][2] = b][1]

\* str.encode("ascii"): the bytes, or a UnicodeEncodeError.
encode_ascii(s) ==
  IF \A i \in 1..Len(s) : s[i] \in AsciiChars
  THEN [ok |-> TRUE, bytes |-> [i \in 1..Len(s) |-> OrdOf(s[i])]]
  ELSE [ok |-> FALSE, bytes |-> <<>>]

\* bytes.decode("ascii"): the string, or a UnicodeDecodeError.
decode_ascii(b) ==
  IF \A i \in 1..Len(b) : b[i] \in AsciiBytes
  THEN [ok |-> TRUE, str |-> [i \in 1..Len(b) |-> ChrOf(b[i])]]
  ELSE [ok |-> FALSE, str |-> <<>>]

\* ------------------------------------------------------------ str helpers

\* str.startswith / bytes.endswith
startswith(s, p) == Len(s) >= Len(p) /\ SubSeq(s, 1, Len(p)) = p
endswith(s, p) == Len(s) >= Len(p) /\ SubSeq(s, Len(s) - Len(p) + 1, Len(s)) = p

\* Characters str.strip() and int() treat as whitespace.
IsSpace(c) == c \in {" ", "\n", "\r"}

RECURSIVE lstrip(_)
lstrip(s) == IF s # <<>> /\ IsSpace(Head(s)) THEN lstrip(Tail(s)) ELSE s

RECURSIVE rstrip(_)
rstrip(s) ==
  IF s # <<>> /\ IsSpace(s[Len(s)]) THEN rstrip(SubSeq(s, 1, Len(s) - 1)) ELSE s

\* str.strip()
strip(s) == rstrip(lstrip(s))

\* Value of a hexadecimal digit, -1 for any other character.
HexDigit(c) ==
  CASE c = "0" -> 0 [] c = "1" -> 1 [] c = "5" -> 5 [] c = "A" -> 10
    [] c = "b" -> 11 [] c = "c" -> 12 [] c = "e" -> 14
    [] OTHER -> -1

\* Digits of an int() literal: single underscores between digits only;
\* canUnderscore says whether an underscore may come next.
RECURSIVE HexDigits(_, _, _)
HexDigits(s, acc, canUnderscore) ==
  IF s = <<>> THEN [ok |-> TRUE, val |-> acc]
  ELSE IF Head(s) = "_"
       THEN IF canUnderscore /\ Len(s) >= 2 /\ HexDigit(s[2]) >= 0
            THEN HexDigits(Tail(s), acc, FALSE)
            ELSE [ok |-> FALSE, val |-> 0]
       ELSE IF HexDigit(Head(s)) >= 0
            THEN HexDigits(Tail(s), 16 * acc + HexDigit(Head(s)), TRUE)
            ELSE [ok |-> FALSE, val |-> 0]

\* int(s, base=16): surrounding whitespace, an optional sign, an optional
\* 0x prefix, then digits; [ok |-> FALSE] stands for the ValueError.
int_base16(s) ==
  LET t == strip(s)
      neg == t # <<>> /\ Head(t) = "-"
      u == IF t # <<>> /\ Head(t) \in {"+", "-"} THEN Tail(t) ELSE t
      pre == Len(u) >= 2 /\ u[1] = "0" /\ u[2] = "x"
      d == IF pre THEN SubSeq(u, 3, Len(u)) ELSE u
      r == IF d = <<>> \/ (~pre /\ Head(d) = "_")
           THEN [ok |-> FALSE, val |-> 0]
           ELSE HexDigits(d, 0, pre)
  IN IF r.ok THEN [ok |-> TRUE, val |-> IF neg THEN 0 - r.val ELSE r.val] ELSE r

\* ------------------------------------------------------- calls and frames

\* What a caller may invoke: the entry point and its command argument.
Calls ==
  { [op |-> "communicate", cmd |-> <<"m", "v">>],
    [op |-> "communicate", cmd |-> <<"m", NonAsciiChar>>],
    [op |-> "action", cmd |-> <<"m", "v">>],
    [op |-> "status", cmd |-> <<"c", "h", ":", "b", "s">>],
    [op |-> "status", cmd |-> <<"c", "h", "b", "s">>] }

\* What the device may put on the line in one burst: a whole frame, a frame
\* followed by further bytes, a frame cut before its terminator, a frame
\* with a non-ASCII byte.
Bursts ==
  { <<98, 115, 32, 49, CR>>,
    <<111, 107, 53, CR, 122>>,
    <<101, 114>>,
    <<255, CR>> }

\* ------------------------------------------------------------------- state

VARIABLES
  pc,            \* per thread: where it is in its call
  op,            \* per thread: entry point called
  cmd,           \* per thread: the command argument
  raw_response,  \* per thread: communicate's accumulator
  result,        \* per thread: what the call returned or raised
  txn,           \* per thread: communicate() invocations made by the call
  wait,          \* per thread: ticks spent in the current blocking operation
  sinceWrite,    \* per thread: ticks from the frame write to the end of the read loop
  lock,          \* self.lock: TRUE when locked
  inbuf,         \* self.port: bytes received and not yet read (in_waiting = Len)
  written,       \* self.port: every byte written to the device so far
  bursts,        \* number of bursts the device has sent
  pure,          \* argument and outcome of the operations applied in SpecClassify
  is_open,       \* self.port: TRUE while the channel is open
  timeout        \* self.timeout: the configured duration, in ticks

vars ==
  << pc, op, cmd, raw_response, result, txn, wait, sinceWrite, lock, inbuf,
     written, bursts, pure, is_open, timeout >>

threadVars == << pc, op, cmd, raw_response, result, txn, wait, sinceWrite >>
portVars == << inbuf, written >>
deviceVars == << bursts >>

\* ---------------------------------------------------------------- outcomes

NoResult ==
  [kind |-> "none", msg |-> "", cmd |-> <<>>, str |-> <<>>, bytes |-> <<>>,
   code |-> 0, prefix |-> <<>>]

\* return <str>
Returned(s) == [NoResult EXCEPT !.kind = "Returned", !.str = s]
\* TimeoutError from the lock wait
LockTimeout == [NoResult EXCEPT !.kind = "Timeout", !.msg = "lock"]
\* TimeoutError(rf"Query: {command}, ... of {raw_response}.")
ReadTimeoutError(command, raw) ==
  [NoResult EXCEPT !.kind = "Timeout", !.msg = "read", !.cmd = command,
                   !.bytes = raw]
\* SerialCommunicationError("There were unread bytes in the input buffer")
StaleError ==
  [NoResult EXCEPT !.kind = "Communication", !.msg = "unread bytes in the input buffer"]
\* UnexpectedResponse(f"Expected response prefix '{expected_prefix}', got response '{response}'")
UnexpectedPrefix(response, expected_prefix) ==
  [NoResult EXCEPT !.kind = "UnexpectedResponse", !.str = response,
                   !.prefix = expected_prefix]
\* UnexpectedResponse(f"Expected response like 'ok XX' or 'er XX', got '{response}'")
UnexpectedAction(response) ==
  [NoResult EXCEPT !.kind = "UnexpectedResponse", !.str = response]
\* InvalidCommand(f"Expected command like 'ch:xx' or 'ch:xx ...', got '{command}'")
InvalidCommand(command) ==
  [NoResult EXCEPT !.kind = "InvalidCommand", !.cmd = command]
ValueError(s) == [NoResult EXCEPT !.kind = "ValueError", !.str = s]
UnicodeEncodeError(command) ==
  [NoResult EXCEPT !.kind = "UnicodeEncodeError", !.cmd = command]
UnicodeDecodeError(raw) ==
  [NoResult EXCEPT !.kind = "UnicodeDecodeError", !.bytes = raw]

\* The error of a channel operation (in_waiting, write, read) on a closed port.
PortNotOpenError == [NoResult EXCEPT !.kind = "PortNotOpen"]

\* PlateShuttleSystemStatus.from_hex_string(hex): the status decoded from the
\* hexadecimal code, a ValueError when hex is no hexadecimal number.
from_hex_string(hex) ==
  IF int_base16(hex).ok
  THEN [NoResult EXCEPT !.kind = "Status", !.str = hex, !.code = int_base16(hex).val]
  ELSE ValueError(hex)

\* SerialCommunicationError.from_error_code(code)
from_error_code(code) ==
  [NoResult EXCEPT !.kind = "Communication", !.msg = "device", !.code = code]

\* ------------------------------------------------- pure parts of the engine

\* check_prefix_and_strip(response, expected_prefix)
check_prefix_and_strip(response, expected_prefix) ==
  IF startswith(response, expected_prefix)
  THEN Returned(strip(SubSeq(response, Len(expected_prefix) + 1, Len(response))))
  ELSE UnexpectedPrefix(response, expected_prefix)

\* issue_action_command, from the response communicate() returned.
issue_action_result(response) ==
  IF startswith(response, <<"o", "k">>)
  THEN LET p == check_prefix_and_strip(response, <<"o", "k">>)
       IN IF p.kind = "Returned" THEN from_hex_string(p.str) ELSE p
  ELSE IF startswith(response, <<"e", "r">>)
  THEN LET p == check_prefix_and_strip(response, <<"e", "r">>)
       IN IF p.kind # "Returned" THEN p
          ELSE IF int_base16(p.str).ok
               THEN from_error_code(int_base16(p.str).val)
               ELSE ValueError(p.str)
  ELSE UnexpectedAction(response)

LowerCase == {"b", "c", "e", "h", "k", "m", "o", "r", "s", "v", "x", "y", "z"}

\* re.fullmatch("ch:[a-z]{2}.*", command): "." matches anything but a newline.
valid_status_command(command) ==
  /\ Len(command) >= 5
  /\ SubSeq(command, 1, 3) = <<"c", "h", ":">>
  /\ command[4] \in LowerCase /\ command[5] \in LowerCase
  /\ \A i \in 6..Len(command) : command[i] # "\n"

\* issue_status_result as it would be with the tag taken one character early.
issue_status_result_early_tag(command, response) ==
  check_prefix_and_strip(response, SubSeq(command, 3, 4))

\* issue_status_command, from the response communicate() returned.
issue_status_result(command, response) ==
  check_prefix_and_strip(response, SubSeq(command, 4, 5))

\* What the entry point makes of the string communicate() returned.
entry_result(o, command, response) ==
  CASE o = "communicate" -> Returned(response)
    [] o = "action" -> issue_action_result(response)
    [] o = "status" -> issue_status_result(command, response)

\* ------------------------------------------------------------ the lock

\* lock_threading_lock(lock, timeout=...): entering the block takes the lock
\* when it is free within the timeout, and raises TimeoutError otherwise;
\* leaving the block, normally or by an exception, releases it.
lock_free(l) == l = FALSE
lock_taken == TRUE
lock_released == FALSE

\* ------------------------------------------------------------------- Init

NoPure == [response |-> <<>>, command |-> <<>>, applied |-> "none", out |-> NoResult]

EngineInit ==
  /\ pc = [t \in Threads |-> "idle"]
  /\ op = [t \in Threads |-> "none"]
  /\ cmd = [t \in Threads |-> <<>>]
  /\ raw_response = [t \in Threads |-> <<>>]
  /\ result = [t \in Threads |-> NoResult]
  /\ txn = [t \in Threads |-> 0]
  /\ wait = [t \in Threads |-> 0]
  /\ sinceWrite = [t \in Threads |-> 0]
  /\ lock = lock_released
  /\ inbuf = <<>>
  /\ written = <<>>
  /\ bursts = 0
  /\ is_open = TRUE
  /\ timeout = Timeout

Init == EngineInit /\ pure = NoPure

\* ---------------------------------------------------------------- callers

\* Call as it would be if issue_status_command called communicate without
\* validating the command first.
CallUnvalidated(t) ==
  /\ pc[t] = "idle"
  /\ IF t = 1 THEN TRUE ELSE pc[t - 1] # "idle"
  /\ \E c \in Calls :
       /\ op' = [op EXCEPT ![t] = c.op]
       /\ cmd' = [cmd EXCEPT ![t] = c.cmd]
  /\ pc' = [pc EXCEPT ![t] = "acquire"]
  /\ result' = [result EXCEPT ![t] = NoResult]
  /\ txn' = [txn EXCEPT ![t] = 1]
  /\ raw_response' = [raw_response EXCEPT ![t] = <<>>]
  /\ wait' = [wait EXCEPT ![t] = 0]
  /\ sinceWrite' = [sinceWrite EXCEPT ![t] = 0]
  /\ UNCHANGED << lock, portVars, deviceVars, pure, is_open, timeout >>

\* A thread calls communicate, issue_action_command or issue_status_command.
\* issue_status_command validates the command first and raises InvalidCommand
\* without calling communicate. The threads are interchangeable: they make
\* their calls in the order of their numbers.
Call(t) ==
  /\ pc[t] = "idle"
  /\ IF t = 1 THEN TRUE ELSE pc[t - 1] # "idle"
  /\ \E c \in Calls :
       /\ op' = [op EXCEPT ![t] = c.op]
       /\ cmd' = [cmd EXCEPT ![t] = c.cmd]
       /\ IF c.op = "status" /\ ~valid_status_command(c.cmd)
          THEN /\ pc' = [pc EXCEPT ![t] = "done"]
               /\ result' = [result EXCEPT ![t] = InvalidCommand(c.cmd)]
               /\ txn' = [txn EXCEPT ![t] = 0]
          ELSE /\ pc' = [pc EXCEPT ![t] = "acquire"]
               /\ result' = [result EXCEPT ![t] = NoResult]
               /\ txn' = [txn EXCEPT ![t] = 1]
  /\ raw_response' = [raw_response EXCEPT ![t] = <<>>]
  /\ wait' = [wait EXCEPT ![t] = 0]
  /\ sinceWrite' = [sinceWrite EXCEPT ![t] = 0]
  /\ UNCHANGED << lock, portVars, deviceVars, pure, is_open, timeout >>

\* ------------------------------------------------------------ communicate

\* Acquire as it would be if the block were entered without the lock being free.
AcquireUnguarded(t) ==
  /\ pc[t] = "acquire"
  /\ lock' = lock_taken
  /\ pc' = [pc EXCEPT ![t] = "check"]
  /\ wait' = [wait EXCEPT ![t] = 0]
  /\ UNCHANGED << op, cmd, raw_response, result, txn, sinceWrite, portVars,
                  deviceVars, pure, is_open, timeout >>

\* with lock_threading_lock(self.lock, timeout=self.timeout): the lock is free.
Acquire(t) ==
  /\ pc[t] = "acquire"
  /\ lock_free(lock)
  /\ lock' = lock_taken
  /\ pc' = [pc EXCEPT ![t] = "check"]
  /\ wait' = [wait EXCEPT ![t] = 0]
  /\ UNCHANGED << op, cmd, raw_response, result, txn, sinceWrite, portVars,
                  deviceVars, pure, is_open, timeout >>

\* AcquireTimeout as it would be if the block were entered although the
\* lock was not obtained.
AcquireTimeoutEnters(t) ==
  /\ pc[t] = "acquire"
  /\ ~lock_free(lock)
  /\ wait[t] >= timeout
  /\ pc' = [pc EXCEPT ![t] = "check"]
  /\ wait' = [wait EXCEPT ![t] = 0]
  /\ UNCHANGED << op, cmd, raw_response, result, txn, sinceWrite, lock,
                  portVars, deviceVars, pure, is_open, timeout >>

\* with lock_threading_lock(...): the lock stayed taken for the whole timeout.
AcquireTimeout(t) ==
  /\ pc[t] = "acquire"
  /\ ~lock_free(lock)
  /\ wait[t] >= timeout
  /\ pc' = [pc EXCEPT ![t] = "done"]
  /\ result' = [result EXCEPT ![t] = LockTimeout]
  /\ wait' = [wait EXCEPT ![t] = 0]
  /\ UNCHANGED << op, cmd, raw_response, txn, sinceWrite, lock, portVars,
                  deviceVars, pure, is_open, timeout >>

\* StaleCheck as it would be if the unread bytes were discarded and the
\* transaction went on.
StaleCheckDrains(t) ==
  /\ pc[t] = "check"
  /\ inbuf' = <<>>
  /\ pc' = [pc EXCEPT ![t] = "write"]
  /\ UNCHANGED << op, cmd, raw_response, result, txn, wait, sinceWrite, lock,
                  written, deviceVars, pure, is_open, timeout >>

\* StaleCheck as it would be if the transaction went on without looking at
\* the input buffer.
StaleCheckSkipped(t) ==
  /\ pc[t] = "check"
  /\ pc' = [pc EXCEPT ![t] = "write"]
  /\ UNCHANGED << op, cmd, raw_response, result, txn, wait, sinceWrite, lock,
                  portVars, deviceVars, pure, is_open, timeout >>

\* if self.port.in_waiting: raise SerialCommunicationError(...)
StaleCheck(t) ==
  /\ pc[t] = "check"
  /\ IF Len(inbuf) > 0
     THEN /\ pc' = [pc EXCEPT ![t] = "done"]
          /\ result' = [result EXCEPT ![t] = StaleError]
          /\ lock' = lock_released
     ELSE /\ pc' = [pc EXCEPT ![t] = "write"]
          /\ UNCHANGED << result, lock >>
  /\ UNCHANGED << op, cmd, raw_response, txn, wait, sinceWrite, portVars,
                  deviceVars, pure, is_open, timeout >>

\* WriteFrame as it would be if the terminator were not appended.
WriteFrameNoTerminator(t) ==
  /\ pc[t] = "write"
  /\ LET enc == encode_ascii(cmd[t])
     IN IF enc.ok
        THEN /\ written' = written \o enc.bytes
             /\ raw_response' = [raw_response EXCEPT ![t] = <<>>]
             /\ pc' = [pc EXCEPT ![t] = "read"]
             /\ UNCHANGED << result, lock >>
        ELSE /\ pc' = [pc EXCEPT ![t] = "done"]
             /\ result' = [result EXCEPT ![t] = UnicodeEncodeError(cmd[t])]
             /\ lock' = lock_released
             /\ UNCHANGED << written, raw_response >>
  /\ wait' = [wait EXCEPT ![t] = 0]
  /\ sinceWrite' = [sinceWrite EXCEPT ![t] = 0]
  /\ UNCHANGED << op, cmd, txn, inbuf, deviceVars, pure, is_open, timeout >>

\* raw_command = command.encode("ascii") + b"\r"; raw_response = b"";
\* self.port.write(raw_command)
WriteFrame(t) ==
  /\ pc[t] = "write"
  /\ LET enc == encode_ascii(cmd[t])
     IN IF enc.ok
        THEN /\ written' = written \o enc.bytes \o <<CR>>
             /\ raw_response' = [raw_response EXCEPT ![t] = <<>>]
             /\ pc' = [pc EXCEPT ![t] = "read"]
             /\ UNCHANGED << result, lock >>
        ELSE /\ pc' = [pc EXCEPT ![t] = "done"]
             /\ result' = [result EXCEPT ![t] = UnicodeEncodeError(cmd[t])]
             /\ lock' = lock_released
             /\ UNCHANGED << written, raw_response >>
  /\ wait' = [wait EXCEPT ![t] = 0]
  /\ sinceWrite' = [sinceWrite EXCEPT ![t] = 0]
  /\ UNCHANGED << op, cmd, txn, inbuf, deviceVars, pure, is_open, timeout >>

\* ReadByte as it would be if the read took everything the buffer holds
\* instead of one byte.
ReadByteAll(t) ==
  /\ pc[t] = "read"
  /\ Len(inbuf) > 0
  /\ LET raw == raw_response[t] \o inbuf
     IN /\ inbuf' = <<>>
        /\ raw_response' = [raw_response EXCEPT ![t] = raw]
        /\ IF endswith(raw, <<CR>>)
           THEN /\ pc' = [pc EXCEPT ![t] = "decode"]
                /\ lock' = lock_released
           ELSE /\ UNCHANGED << pc, lock >>
  /\ wait' = [wait EXCEPT ![t] = 0]
  /\ UNCHANGED << op, cmd, result, txn, sinceWrite, written, deviceVars, pure,
                  is_open, timeout >>

\* char = self.port.read() with a byte available; raw_response += char; the
\* loop and the with block end when raw_response ends with the terminator.
ReadByte(t) ==
  /\ pc[t] = "read"
  /\ Len(inbuf) > 0
  /\ LET char == Head(inbuf)
         raw == Append(raw_response[t], char)
     IN /\ inbuf' = Tail(inbuf)
        /\ raw_response' = [raw_response EXCEPT ![t] = raw]
        /\ IF endswith(raw, <<CR>>)
           THEN /\ pc' = [pc EXCEPT ![t] = "decode"]
                /\ lock' = lock_released
           ELSE /\ UNCHANGED << pc, lock >>
  /\ wait' = [wait EXCEPT ![t] = 0]
  /\ UNCHANGED << op, cmd, result, txn, sinceWrite, written, deviceVars, pure, is_open, timeout >>

\* ReadTimeout as it would be if the read gave up before the timeout had run.
ReadTimeoutEarly(t) ==
  /\ pc[t] = "read"
  /\ Len(inbuf) = 0
  /\ pc' = [pc EXCEPT ![t] = "done"]
  /\ result' = [result EXCEPT ![t] = ReadTimeoutError(cmd[t], raw_response[t])]
  /\ lock' = lock_released
  /\ raw_response' = [raw_response EXCEPT ![t] = <<>>]
  /\ wait' = [wait EXCEPT ![t] = 0]
  /\ UNCHANGED << op, cmd, txn, sinceWrite, portVars, deviceVars, pure, is_open, timeout >>

\* ReadTimeout as it would be if the error reported the last read (empty)
\* instead of the accumulated bytes.
ReadTimeoutDropsPartial(t) ==
  /\ pc[t] = "read"
  /\ Len(inbuf) = 0
  /\ wait[t] >= Timeout
  /\ pc' = [pc EXCEPT ![t] = "done"]
  /\ result' = [result EXCEPT ![t] = ReadTimeoutError(cmd[t], <<>>)]
  /\ lock' = lock_released
  /\ raw_response' = [raw_response EXCEPT ![t] = <<>>]
  /\ wait' = [wait EXCEPT ![t] = 0]
  /\ UNCHANGED << op, cmd, txn, sinceWrite, portVars, deviceVars, pure, is_open, timeout >>

\* ReadTimeout as it would be if the error left the block without releasing
\* the lock.
ReadTimeoutKeepsLock(t) ==
  /\ pc[t] = "read"
  /\ Len(inbuf) = 0
  /\ wait[t] >= Timeout
  /\ pc' = [pc EXCEPT ![t] = "done"]
  /\ result' = [result EXCEPT ![t] = ReadTimeoutError(cmd[t], raw_response[t])]
  /\ raw_response' = [raw_response EXCEPT ![t] = <<>>]
  /\ wait' = [wait EXCEPT ![t] = 0]
  /\ UNCHANGED << op, cmd, txn, sinceWrite, lock, portVars, deviceVars, pure, is_open, timeout >>

\* ReadTimeout as it would be if an empty read were retried instead of
\* raising the TimeoutError.
ReadTimeoutRetries(t) ==
  /\ pc[t] = "read"
  /\ Len(inbuf) = 0
  /\ wait[t] >= Timeout
  /\ wait' = [wait EXCEPT ![t] = 0]
  /\ UNCHANGED << pc, op, cmd, raw_response, result, txn, sinceWrite, lock,
                  portVars, deviceVars, pure, is_open, timeout >>

\* char = self.port.read() returns b"" after the read timeout; raw_response
\* += char; raise TimeoutError(...)
ReadTimeout(t) ==
  /\ pc[t] = "read"
  /\ Len(inbuf) = 0
  /\ wait[t] >= Timeout
  /\ pc' = [pc EXCEPT ![t] = "done"]
  /\ result' = [result EXCEPT ![t] = ReadTimeoutError(cmd[t], raw_response[t])]
  /\ lock' = lock_released
  /\ raw_response' = [raw_response EXCEPT ![t] = <<>>]
  /\ wait' = [wait EXCEPT ![t] = 0]
  /\ UNCHANGED << op, cmd, txn, sinceWrite, portVars, deviceVars, pure, is_open, timeout >>

\* Return as it would be if check_prefix_and_strip discarded the unread input
\* when it examined the response.
ReturnResetsInput(t) ==
  /\ pc[t] = "decode"
  /\ LET raw == raw_response[t]
         dec == decode_ascii(SubSeq(raw, 1, Len(raw) - 1))
     IN result' = [result EXCEPT ![t] =
                     IF dec.ok THEN entry_result(op[t], cmd[t], dec.str)
                     ELSE UnicodeDecodeError(SubSeq(raw, 1, Len(raw) - 1))]
  /\ pc' = [pc EXCEPT ![t] = "done"]
  /\ raw_response' = [raw_response EXCEPT ![t] = <<>>]
  /\ inbuf' = IF op[t] = "communicate" THEN inbuf ELSE <<>>
  /\ UNCHANGED << op, cmd, txn, wait, sinceWrite, lock, written, deviceVars,
                  pure, is_open, timeout >>

\* Return as it would be if the decoding dropped the bytes that are not
\* ASCII instead of failing.
ReturnDropsNonAscii(t) ==
  /\ pc[t] = "decode"
  /\ LET raw == raw_response[t]
         kept == SelectSeq(SubSeq(raw, 1, Len(raw) - 1), LAMBDA b : b < 128)
     IN result' = [result EXCEPT ![t] =
                     entry_result(op[t], cmd[t], decode_ascii(kept).str)]
  /\ pc' = [pc EXCEPT ![t] = "done"]
  /\ raw_response' = [raw_response EXCEPT ![t] = <<>>]
  /\ UNCHANGED << op, cmd, txn, wait, sinceWrite, lock, portVars, deviceVars,
                  pure, is_open, timeout >>

\* response = raw_response[:-1].decode("ascii"); return response, and what
\* the entry point that called communicate makes of it.
Return(t) ==
  /\ pc[t] = "decode"
  /\ LET raw == raw_response[t]
         dec == decode_ascii(SubSeq(raw, 1, Len(raw) - 1))
     IN result' = [result EXCEPT ![t] =
                     IF dec.ok THEN entry_result(op[t], cmd[t], dec.str)
                     ELSE UnicodeDecodeError(SubSeq(raw, 1, Len(raw) - 1))]
  /\ pc' = [pc EXCEPT ![t] = "done"]
  /\ raw_response' = [raw_response EXCEPT ![t] = <<>>]
  /\ UNCHANGED << op, cmd, txn, wait, sinceWrite, lock, portVars, deviceVars,
                  pure, is_open, timeout >>

\* ------------------------------------------------------- device and clock

\* A burst of bytes from the device, in answer to a command or unasked,
\* arrives in the port's input buffer; the device sends at most n bursts.
DeviceSendUpTo(n) ==
  /\ bursts < n
  /\ \E b \in Bursts : inbuf' = inbuf \o b
  /\ bursts' = bursts + 1
  /\ UNCHANGED << threadVars, lock, written, pure, is_open, timeout >>

DeviceSend == DeviceSendUpTo(MaxBursts)

DeviceSendTimed == DeviceSendUpTo(MaxTimedBursts)

Blocked(t) == pc[t] \in {"acquire", "read"}

\* One tick of time passes: no blocked thread has exhausted its timeout.
TickClock ==
  /\ \E t \in Threads : Blocked(t)
  /\ \A t \in Threads : Blocked(t) => wait[t] < Timeout
  /\ wait' = [t \in Threads |-> IF Blocked(t) THEN wait[t] + 1 ELSE wait[t]]
  /\ UNCHANGED << pc, op, cmd, raw_response, result, txn, lock, portVars,
                  deviceVars, pure, is_open, timeout >>

Tick == TickClock /\ UNCHANGED sinceWrite

\* A tick that is also counted against the time since the frame was written,
\* up to one tick past the timeout. A read returns as soon as a byte is
\* there, so no time passes in a read that has one.
TickTimed ==
  /\ TickClock
  /\ \A t \in Threads : pc[t] = "read" => Len(inbuf) = 0
  /\ sinceWrite' =
       [t \in Threads |->
          IF pc[t] = "read" /\ sinceWrite[t] <= Timeout
          THEN sinceWrite[t] + 1 ELSE sinceWrite[t]]

Next ==
  \/ \E t \in Threads :
       \/ Call(t)
       \/ Acquire(t) \/ AcquireTimeout(t)
       \/ StaleCheck(t) \/ WriteFrame(t)
       \/ ReadByte(t) \/ ReadTimeout(t)
       \/ Return(t)
  \/ DeviceSend
  \/ Tick

Spec == Init /\ [][Next]_vars

\* One caller's transaction against the device, with the time since the
\* frame write counted.
NextTimed ==
  \/ Call(1)
  \/ Acquire(1)
  \/ StaleCheck(1) \/ WriteFrame(1)
  \/ ReadByte(1) \/ ReadTimeout(1)
  \/ Return(1)
  \/ DeviceSendTimed
  \/ TickTimed

SpecTimed == Init /\ [][NextTimed]_vars

\* ------------------------------------- the entry points on drawn responses

TailChars == {" ", "0", "1", "5", "A", "z", "x", "-", "_"}
Tails == UNION { [1..n -> TailChars] : n \in 0..MaxTailLen }
Heads ==
  { <<>>, <<"o", "k">>, <<"e", "r">>, <<"b", "s">>, <<"o">>, <<"x", "y", "z">> }
\* Strings communicate() may return.
Responses == { h \o tl : h \in Heads, tl \in Tails }
\* Commands given to issue_status_command.
StatusCommands ==
  { <<"c", "h", ":", "b", "s">>,
    <<"c", "h", "b", "s">>,
    <<"c", "h", ":", "o", "k", " ", "1">>,
    <<"c", "h", ":", "b", "5">>,
    <<"c", "h", ":", "b", "s", "\n">> }

InitClassify ==
  /\ EngineInit
  /\ pure \in { [NoPure EXCEPT !.response = r, !.command = c] :
                  r \in Responses, c \in StatusCommands }

engineVars ==
  << pc, op, cmd, raw_response, result, txn, wait, sinceWrite, lock, inbuf,
     written, bursts, is_open, timeout >>

\* issue_action_command(command) with communicate() returning pure.response.
ApplyAction ==
  /\ pure.applied = "none"
  /\ pure' = [pure EXCEPT !.applied = "action",
                          !.out = issue_action_result(pure.response)]
  /\ UNCHANGED engineVars

\* issue_status_command(command) with communicate() returning pure.response.
ApplyStatus ==
  /\ pure.applied = "none"
  /\ pure' = [pure EXCEPT !.applied = "status",
                          !.out = IF valid_status_command(pure.command)
                                  THEN issue_status_result(pure.command, pure.response)
                                  ELSE InvalidCommand(pure.command)]
  /\ UNCHANGED engineVars

NextClassify == ApplyAction \/ ApplyStatus

SpecClassify == InitClassify /\ [][NextClassify]_vars

\* --------------------------------------------- a device that answers frames

\* The number of terminators in a byte sequence: the frames written, or the
\* whole replies waiting in the input buffer.
CountCR(b) == Cardinality({ i \in 1..Len(b) : b[i] = CR })

RECURSIVE FrameAt(_, _)
\* The command bytes of the k-th frame written to the device.
FrameAt(w, k) ==
  LET n == CHOOSE i \in 1..Len(w) : w[i] = CR /\ \A j \in 1..(i - 1) : w[j] # CR
  IN IF k = 1 THEN SubSeq(w, 1, n - 1)
     ELSE FrameAt(SubSeq(w, n + 1, Len(w)), k - 1)

\* What the device answers to a frame: 'xx 1' to the status command 'ch:xx',
\* 'ok 5' to any other command, each ended by the terminator.
ReplyTo(frame) ==
  IF Len(frame) >= 5 /\ SubSeq(frame, 1, 3) = <<99, 104, 58>>
  THEN <<frame[4], frame[5], 32, 49, CR>>
  ELSE <<111, 107, 32, 53, CR>>

\* The number of whole replies read from the input buffer so far.
RepliesRead == bursts - CountCR(inbuf)

\* The device answers the oldest frame it has not answered yet: the reply
\* arrives in the input buffer, at any time after the frame was written.
DeviceReply ==
  /\ bursts < CountCR(written)
  /\ inbuf' = inbuf \o ReplyTo(FrameAt(written, bursts + 1))
  /\ bursts' = bursts + 1
  /\ UNCHANGED << threadVars, lock, written, pure, is_open, timeout >>

\* The callers against a device that answers every frame once, in order,
\* but possibly after the caller has given up.
NextLate ==
  \/ \E t \in Threads :
       \/ Call(t)
       \/ Acquire(t) \/ AcquireTimeout(t)
       \/ StaleCheck(t) \/ WriteFrame(t)
       \/ ReadByte(t) \/ ReadTimeout(t)
       \/ Return(t)
  \/ DeviceReply
  \/ Tick

SpecLate == Init /\ [][NextLate]_vars

\* A tick with the device in time: no call that is reading is left waiting
\* for its reply until the read timeout has run.
TickInTime ==
  /\ Tick
  /\ \A t \in Threads :
       (pc[t] = "read" /\ Len(inbuf) = 0) => wait[t] + 1 < Timeout

\* The callers against a device that answers every frame with one reply
\* before the read of the call that wrote it times out.
NextOrdered ==
  \/ \E t \in Threads :
       \/ Call(t)
       \/ Acquire(t) \/ AcquireTimeout(t)
       \/ StaleCheck(t) \/ WriteFrame(t)
       \/ ReadByte(t)
       \/ Return(t)
  \/ DeviceReply
  \/ TickInTime

SpecOrdered == Init /\ [][NextOrdered]_vars

\* ------------------------------------------------- a device that never stops

\* raw_response as the specification of termination keeps it: its last
\* MaxWindow bytes. The loop condition reads only its end.
Window(raw) ==
  IF Len(raw) > MaxWindow THEN SubSeq(raw, Len(raw) - MaxWindow + 1, Len(raw))
  ELSE raw

\* char = self.port.read() with a byte available; raw_response += char, of
\* which the last MaxWindow bytes are kept; the loop and the with block end
\* when raw_response ends with the terminator.
ReadByteWindow(t) ==
  /\ pc[t] = "read"
  /\ Len(inbuf) > 0
  /\ LET char == Head(inbuf)
         raw == Window(Append(raw_response[t], char))
     IN /\ inbuf' = Tail(inbuf)
        /\ raw_response' = [raw_response EXCEPT ![t] = raw]
        /\ IF endswith(raw, <<CR>>)
           THEN /\ pc' = [pc EXCEPT ![t] = "decode"]
                /\ lock' = lock_released
           ELSE /\ UNCHANGED << pc, lock >>
  /\ wait' = [wait EXCEPT ![t] = 0]
  /\ UNCHANGED << op, cmd, result, txn, sinceWrite, written, deviceVars, pure,
                  is_open, timeout >>

\* The device puts one byte b on the line, at any time and without end; the
\* input buffer holds at most MaxWindow unread bytes.
DeviceSendByte(b) ==
  /\ Len(inbuf) < MaxWindow
  /\ inbuf' = Append(inbuf, b)
  /\ UNCHANGED << threadVars, lock, written, bursts, pure, is_open, timeout >>

\* A byte that is not the terminator.
DeviceBabble == DeviceSendByte(122)

\* The steps of a call once made: the thread that runs it is scheduled.
StepLive(t) ==
  \/ Acquire(t) \/ AcquireTimeout(t)
  \/ StaleCheck(t) \/ WriteFrame(t)
  \/ ReadByteWindow(t) \/ ReadTimeout(t)
  \/ Return(t)

\* The callers of the specification of termination: one in its transaction
\* and one contending for the lock.
Contenders == {1, 2}

NextLive ==
  \/ \E t \in Contenders : Call(t) \/ StepLive(t)
  \/ DeviceBabble
  \/ DeviceSendByte(CR)
  \/ Tick

\* Every thread in a call keeps running and time keeps passing; the device
\* and the callers' decisions to call are free.
SpecLive ==
  /\ Init
  /\ [][NextLive]_vars
  /\ \A t \in Contenders : WF_vars(StepLive(t))
  /\ WF_vars(Tick)

\* ------------------------------------------------------- close() and open()

\* close() as it would be if it forced the transaction lock free.
CloseReleasesLock ==
  /\ is_open
  /\ is_open' = FALSE
  /\ lock' = lock_released
  /\ UNCHANGED << threadVars, portVars, deviceVars, pure, timeout >>

\* close(): self.port.close(). Closing a closed port changes nothing.
Close ==
  /\ is_open
  /\ is_open' = FALSE
  /\ UNCHANGED << threadVars, lock, portVars, deviceVars, pure, timeout >>

\* open(): self.port.open(). Opening an open port changes nothing; what the
\* channel does with unread input when it is opened is the channel's own:
\* it keeps it or discards it.
Open ==
  /\ ~is_open
  /\ is_open' = TRUE
  /\ inbuf' \in {inbuf, <<>>}
  /\ UNCHANGED << threadVars, lock, written, deviceVars, pure, timeout >>

\* self.port.in_waiting, self.port.write(...) or self.port.read() on a closed
\* port raises; the error leaves the with block, which releases the lock.
PortClosed(t) ==
  /\ ~is_open
  /\ \/ pc[t] \in {"check", "read"}
     \/ pc[t] = "write" /\ encode_ascii(cmd[t]).ok
  /\ pc' = [pc EXCEPT ![t] = "done"]
  /\ result' = [result EXCEPT ![t] = PortNotOpenError]
  /\ lock' = lock_released
  /\ raw_response' = [raw_response EXCEPT ![t] = <<>>]
  /\ wait' = [wait EXCEPT ![t] = 0]
  /\ UNCHANGED << op, cmd, txn, sinceWrite, portVars, deviceVars, pure, is_open,
                  timeout >>

\* The callers, with close() and open() called at any moment by any thread.
\* The channel operations of a transaction work on the open port; a command
\* that cannot be encoded fails before the port is used.
NextLifecycle ==
  \/ \E t \in Contenders :
       \/ Call(t)
       \/ Acquire(t) \/ AcquireTimeout(t)
       \/ is_open /\ (StaleCheck(t) \/ ReadByte(t) \/ ReadTimeout(t))
       \/ (is_open \/ ~encode_ascii(cmd[t]).ok) /\ WriteFrame(t)
       \/ PortClosed(t)
       \/ Return(t)
  \/ is_open /\ DeviceSend
  \/ Tick
  \/ Close
  \/ Open

SpecLifecycle == Init /\ [][NextLifecycle]_vars

\* ------------------------------------------------------------------ claims

\* The critical section of communicate: the stale-buffer check, the frame
\* write and the byte-read loop.
InCritical(t) == pc[t] \in {"check", "write", "read"}

\* C1: in every interleaving of the callers, lock timeouts and failed
\* transactions included, at most one call is inside the critical section
\* (stale-buffer check, frame write, read loop) at any instant.
C1_MutualExclusion == Cardinality({ t \in Threads : InCritical(t) }) <= 1

\* One call is in its read loop while another has given up on the lock.
C1_Witness ==
  \E t, u \in Threads :
    /\ pc[t] = "read"
    /\ pc[u] = "done" /\ result[u] = LockTimeout

\* C2: the lock is released on every exit path of communicate: whenever no
\* call is inside the block the lock is unlocked, whichever way the calls
\* before ended, so a later call can take it.
C2_LockReleased == (\A t \in Threads : ~InCritical(t)) => lock_free(lock)

\* A call has failed with a read timeout and a later call has taken the lock.
C2_Witness ==
  \E t, u \in Threads :
    /\ pc[t] = "done" /\ result[t].kind = "Timeout" /\ result[t].msg = "read"
    /\ pc[u] = "check" /\ ~lock_free(lock)

\* C3: a call that finds unread bytes in the input buffer at its check fails
\* with the Communication error, and that step neither writes to the channel
\* nor consumes a byte.
C3_StaleRejected ==
  [][\A t \in Threads :
       (pc[t] = "check" /\ Len(inbuf) > 0 /\ pc'[t] # "check")
       => /\ pc'[t] = "done"
          /\ result'[t].kind = "Communication"
          /\ result'[t].msg = "unread bytes in the input buffer"
          /\ written' = written
          /\ inbuf' = inbuf]_vars

\* A call has failed on stale bytes, which are still in the buffer.
C3_Witness ==
  \E t \in Threads :
    /\ pc[t] = "done" /\ result[t] = StaleError
    /\ Len(inbuf) > 0

\* C4: a successful communicate(C) writes exactly the bytes of C followed by
\* the terminator, returns the bytes it read before the first terminator
\* decoded as ASCII, and reads nothing after that terminator; bytes leave the
\* input buffer one at a time, from its front, into a read loop only.
C4_Framing ==
  [][/\ \A t \in Threads :
          /\ (pc[t] = "write" /\ pc'[t] = "read")
             => /\ Len(written') = Len(written) + Len(cmd[t]) + 1
                /\ SubSeq(written', 1, Len(written)) = written
                /\ \A i \in 1..Len(cmd[t]) :
                     written'[Len(written) + i] = OrdOf(cmd[t][i])
                /\ written'[Len(written')] = CR
          /\ (pc[t] = "read" /\ raw_response'[t] # raw_response[t] /\ pc'[t] # "done")
             => /\ raw_response'[t] = Append(raw_response[t], Head(inbuf))
                /\ inbuf' = Tail(inbuf)
                /\ pc'[t] = IF Head(inbuf) = CR THEN "decode" ELSE "read"
          /\ (pc[t] = "decode" /\ op[t] = "communicate" /\ result'[t].kind = "Returned")
             => LET raw == raw_response[t]
                    str == result'[t].str
                IN /\ Len(raw) = Len(str) + 1
                   /\ raw[Len(raw)] = CR
                   /\ \A i \in 1..Len(str) : raw[i] = OrdOf(str[i]) /\ raw[i] # CR
                   /\ inbuf' = inbuf
     /\ written' # written => \E t \in Threads : pc[t] = "write" /\ pc'[t] = "read"
     /\ Len(inbuf') < Len(inbuf) => \E t \in Threads : pc[t] = "read"]_vars

\* communicate("mv") has returned "ok5": "mv\r" was written, and the byte
\* that followed the terminator is still unread.
C4_Witness ==
  \E t \in Threads :
    /\ pc[t] = "done" /\ op[t] = "communicate"
    /\ result[t] = Returned(<<"o", "k", "5">>)
    /\ written = <<109, 118, 13>>
    /\ inbuf = <<122>>

\* C5 as stated: when the terminator has not arrived within the configured
\* duration after the frame write, the call fails with a Timeout error. (It
\* may still be reading; it may not have left the read loop any other way.)
C5_TimeoutAfterWrite ==
  \A t \in Threads :
    sinceWrite[t] > Timeout
    => \/ pc[t] = "read"
       \/ pc[t] = "done" /\ result[t].kind = "Timeout"

\* C5, amended: the configured duration bounds each single-byte read, not
\* the whole response. A read waits no longer than the duration; the call
\* fails only when a read has waited the whole duration without a byte, and
\* then with a Timeout error carrying the command and the bytes accumulated
\* so far; every byte read starts the duration afresh.
C5_TimeoutPerRead ==
  [][\A t \in Threads :
       pc[t] = "read"
       => /\ wait[t] <= Timeout
          /\ wait'[t] > wait[t] => wait[t] < Timeout
          /\ pc'[t] = "done"
             => /\ wait[t] = Timeout
                /\ Len(inbuf) = 0
                /\ result'[t].kind = "Timeout"
                /\ result'[t].cmd = cmd[t]
                /\ result'[t].bytes = raw_response[t]
          /\ raw_response'[t] # raw_response[t] /\ pc'[t] = "read" => wait'[t] = 0]_vars

\* A call has failed with a Timeout error carrying the partial frame "er",
\* later than the configured duration after its write.
C5_Witness ==
  \E t \in Threads :
    /\ pc[t] = "done" /\ result[t].kind = "Timeout"
    /\ result[t].cmd = <<"m", "v">>
    /\ result[t].bytes = <<101, 114>>
    /\ sinceWrite[t] > Timeout

\* C6: in the read loop, a read that yields no byte before a terminator has
\* been read ends the call with a Timeout error that carries the command and
\* exactly the bytes accumulated by the earlier reads; the call reads nothing
\* afterwards.
C6_ZeroByteRead ==
  [][/\ \A t \in Threads :
          /\ (pc[t] = "read" /\ pc'[t] = "done")
             => /\ Len(inbuf) = 0
                /\ \A i \in 1..Len(raw_response[t]) : raw_response[t][i] # CR
                /\ result'[t].kind = "Timeout"
                /\ result'[t].cmd = cmd[t]
                /\ result'[t].bytes = raw_response[t]
                /\ inbuf' = inbuf
          /\ (pc[t] = "read" /\ Len(inbuf) = 0 /\ raw_response'[t] # raw_response[t])
             => pc'[t] = "done"
          /\ pc[t] = "done" => pc'[t] = "done" /\ result'[t] = result[t]
     /\ Len(inbuf') < Len(inbuf)
        => \E t \in Threads : pc[t] = "read" /\ pc'[t] # "done"]_vars

\* A status call has failed with a Timeout error carrying the two bytes read.
C6_Witness ==
  \E t \in Threads :
    /\ pc[t] = "done" /\ op[t] = "status"
    /\ result[t] = ReadTimeoutError(<<"c", "h", ":", "b", "s">>, <<101, 114>>)

\* C7: a call that does not get the lock within the timeout, because the
\* lock stays taken, fails with a Timeout error; it enters the block only
\* when the lock is free; the failing call touches neither the channel nor
\* the lock, and the call holding the lock goes on undisturbed.
C7_LockTimeout ==
  [][\A t \in Threads :
       pc[t] = "acquire"
       => /\ wait[t] <= Timeout
          /\ pc'[t] \in {"acquire", "check", "done"}
          /\ pc'[t] = "check" => lock_free(lock)
          /\ pc'[t] = "done"
             => /\ ~lock_free(lock)
                /\ wait[t] = Timeout
                /\ result'[t].kind = "Timeout"
                /\ lock' = lock
                /\ inbuf' = inbuf
                /\ written' = written
                /\ \E u \in Threads \ {t} : InCritical(u)
                /\ \A u \in Threads \ {t} :
                     /\ pc'[u] = pc[u]
                     /\ raw_response'[u] = raw_response[u]
                     /\ result'[u] = result[u]]_vars

\* A call has given up on the lock while the holder, in the middle of its
\* response, still holds it.
C7_Witness ==
  \E t, u \in Threads :
    /\ pc[t] = "done" /\ result[t] = LockTimeout
    /\ pc[u] = "read" /\ raw_response[u] # <<>>
    /\ ~lock_free(lock)

\* p is s without its leading and trailing whitespace.
Stripped(s, p) ==
  \E i, j \in 0..Len(s) :
    /\ i + j <= Len(s)
    /\ p = SubSeq(s, i + 1, Len(s) - j)
    /\ \A k \in 1..i : IsSpace(s[k])
    /\ \A k \in (Len(s) - j + 1)..Len(s) : IsSpace(s[k])
    /\ p # <<>> => ~IsSpace(p[1]) /\ ~IsSpace(p[Len(p)])

\* C8: issue_action_command on the string communicate() returned: starting
\* with "ok", the Device Status parsed from the stripped remainder; starting
\* with "er", a Communication error with the stripped remainder read as a
\* hexadecimal integer, never a status; otherwise an Unexpected-Response
\* error quoting the response.
C8_ActionClassification ==
  pure.applied = "action"
  => LET r == pure.response
         out == pure.out
         rest == SubSeq(r, 3, Len(r))
     IN /\ startswith(r, <<"o", "k">>)
           => \E p \in Tails : Stripped(rest, p) /\ out = from_hex_string(p)
        /\ startswith(r, <<"e", "r">>)
           => /\ out.kind = "Communication"
              /\ \E p \in Tails :
                   /\ Stripped(rest, p)
                   /\ int_base16(p).ok
                   /\ out.code = int_base16(p).val
        /\ ~startswith(r, <<"o", "k">>) /\ ~startswith(r, <<"e", "r">>)
           => out.kind = "UnexpectedResponse" /\ out.str = r

\* The shape "ch:" + two lowercase letters + a trailer without a newline.
StatusShape(c) ==
  /\ Len(c) >= 5
  /\ \E x, y \in LowerCase : SubSeq(c, 1, 5) = <<"c", "h", ":", x, y>>
  /\ \A i \in 6..Len(c) : c[i] # "\n"

\* C9: issue_status_command with a command that is not of the shape fails
\* with an Invalid-Command error before any I/O: no communicate() call is
\* made, the lock, the input buffer and the bytes written stay as they are,
\* and the other callers are not disturbed, then or later.
C9_InvalidRejected ==
  [][\A t \in Threads :
       /\ (pc[t] = "idle" /\ pc'[t] # "idle" /\ op'[t] = "status"
             /\ ~StatusShape(cmd'[t]))
          => /\ pc'[t] = "done"
             /\ result'[t].kind = "InvalidCommand"
             /\ result'[t].cmd = cmd'[t]
             /\ txn'[t] = 0
             /\ lock' = lock
             /\ inbuf' = inbuf
             /\ written' = written
             /\ \A u \in Threads \ {t} : pc'[u] = pc[u]
       /\ (pc[t] = "done" /\ result[t].kind = "InvalidCommand")
          => pc'[t] = "done" /\ txn'[t] = 0]_vars

\* "chbs" has been rejected while another caller's transaction, whose frame
\* is the only thing written, is reading under the lock.
C9_Witness ==
  \E t, u \in Threads :
    /\ pc[t] = "done" /\ op[t] = "status"
    /\ result[t] = InvalidCommand(<<"c", "h", "b", "s">>)
    /\ txn[t] = 0
    /\ pc[u] = "read" /\ ~lock_free(lock)
    /\ written = <<109, 118, 13>>

\* C10: issue_status_command with a command of the shape makes exactly one
\* communicate(command) call; when the response starts with the tag
\* (characters 4-5 of the command) it returns the rest of the response
\* without surrounding whitespace, and otherwise it fails with an
\* Unexpected-Response error naming the tag and the response.
C10_StatusCommand ==
  [][\A t \in Threads :
       /\ (pc[t] = "idle" /\ pc'[t] # "idle" /\ op'[t] = "status"
             /\ StatusShape(cmd'[t]))
          => pc'[t] = "acquire" /\ txn'[t] = 1
       /\ txn'[t] # txn[t] => pc[t] = "idle"
       /\ (pc[t] = "write" /\ pc'[t] = "read" /\ op[t] = "status")
          => written' = written \o encode_ascii(cmd[t]).bytes \o <<CR>>
       /\ (pc[t] = "decode" /\ pc'[t] = "done" /\ op[t] = "status"
             /\ \A i \in 1..Len(raw_response[t]) : raw_response[t][i] < 128)
          => LET raw == raw_response[t]
                 resp == decode_ascii(SubSeq(raw, 1, Len(raw) - 1)).str
                 tag == <<cmd[t][4], cmd[t][5]>>
             IN IF startswith(resp, tag)
                THEN /\ result'[t].kind = "Returned"
                     /\ Stripped(SubSeq(resp, 3, Len(resp)), result'[t].str)
                ELSE /\ result'[t].kind = "UnexpectedResponse"
                     /\ result'[t].prefix = tag
                     /\ result'[t].str = resp]_vars

\* issue_status_command("ch:bs") has written "ch:bs\r", read "bs 1\r" and
\* returned "1", in one communicate() call.
C10_Witness ==
  \E t \in Threads :
    /\ pc[t] = "done" /\ op[t] = "status"
    /\ cmd[t] = <<"c", "h", ":", "b", "s">>
    /\ result[t] = Returned(<<"1">>)
    /\ txn[t] = 1
    /\ written = <<99, 104, 58, 98, 115, 13>>

\* C11: check_prefix_and_strip has no effect on the channel or the lock: the
\* step in which issue_status_command applies it to the response, whatever
\* the other callers and the device have done, leaves the input buffer, the
\* bytes written and the lock as they were, and its outcome is the payload or
\* the Unexpected-Response error its two arguments determine.
C11_StripFrame ==
  [][\A t \in Threads :
       (pc[t] = "decode" /\ pc'[t] = "done" /\ op[t] = "status"
          /\ \A i \in 1..Len(raw_response[t]) : raw_response[t][i] < 128)
       => LET raw == raw_response[t]
              resp == decode_ascii(SubSeq(raw, 1, Len(raw) - 1)).str
              tag == <<cmd[t][4], cmd[t][5]>>
          IN /\ inbuf' = inbuf
             /\ written' = written
             /\ lock' = lock
             /\ IF startswith(resp, tag)
                THEN result'[t].kind = "Returned"
                ELSE result'[t] = UnexpectedPrefix(resp, tag)]_vars

\* issue_status_command has applied check_prefix_and_strip to "ok5" while
\* another caller held the lock and a byte was unread in the input buffer.
C11_Witness ==
  \E t \in Threads :
    /\ pc[t] = "done" /\ op[t] = "status"
    /\ result[t] = UnexpectedPrefix(<<"o", "k", "5">>, <<"b", "s">>)
    /\ ~lock_free(lock)
    /\ inbuf = <<122>>

\* C12: whenever a communicate() call writes its command frame, the input
\* buffer holds no unread bytes, with a device that may deliver bytes at any
\* moment.
C12_NoStaleAtWrite ==
  [][\A t \in Threads :
       (pc[t] = "write" /\ pc'[t] = "read") => Len(inbuf) = 0]_vars

\* C12 as amended: a communicate() call comes to write its frame only from a
\* check that, under the same hold of the lock, found the input buffer
\* empty; whatever the buffer holds when the frame is written was delivered
\* by the device after that check.
C12_NoStaleAtCheck ==
  [][\A t \in Threads :
       /\ (pc'[t] = "write" /\ pc[t] # "write")
          => pc[t] = "check" /\ Len(inbuf) = 0 /\ inbuf' = inbuf
       /\ (pc[t] = "write" /\ inbuf' # inbuf)
          => /\ bursts' = bursts + 1
             /\ \E b \in Bursts : inbuf' = inbuf \o b
             /\ pc'[t] = "write"]_vars

\* A call has passed its check and is about to write its frame, and a burst
\* from the device has arrived in between.
C12_Witness ==
  \E t \in Threads : pc[t] = "write" /\ Len(inbuf) > 0 /\ ~lock_free(lock)

\* C13: a late reply never reaches a later transaction: whenever a
\* communicate() call has read a response up to its terminator, the reply it
\* has read is the device's reply to the frame that call wrote, never the
\* reply to an earlier frame.
C13_OwnReplyOnly ==
  [][\A t \in Threads :
       (pc[t] = "read" /\ pc'[t] = "decode")
       => bursts' - CountCR(inbuf') = CountCR(written)]_vars

\* C13 as amended: a reply that is in the input buffer when a later call
\* makes its check makes that call fail with the stale-buffer error and stays
\* unread; a call passes its check only with the buffer empty and from then
\* to its terminator reads, byte by byte, what the device delivers after the
\* check, so that the reply it returns is the reply to its own frame or to
\* an earlier frame.
C13_StaleOnlyAtCheck ==
  [][\A t \in Threads :
       /\ (pc[t] = "check" /\ Len(inbuf) > 0 /\ pc'[t] # "check")
          => result'[t] = StaleError /\ inbuf' = inbuf
       /\ (pc[t] = "check" /\ pc'[t] = "write")
          => Len(inbuf) = 0 /\ RepliesRead = bursts
       /\ (pc[t] \in {"write", "read"} /\ inbuf' # inbuf)
          => \/ /\ bursts' = bursts + 1
                /\ inbuf' = inbuf \o ReplyTo(FrameAt(written, bursts + 1))
                /\ raw_response' = raw_response
             \/ /\ pc[t] = "read"
                /\ inbuf' = Tail(inbuf)
                /\ raw_response'[t] = Append(raw_response[t], Head(inbuf))
       /\ (pc[t] = "read" /\ pc'[t] = "decode")
          => bursts' - CountCR(inbuf') \in 1..CountCR(written)]_vars

\* A call gave up on its read, a later call passed its check and wrote its
\* frame, the reply to the first frame arrived after that, and the later call
\* has read it as its response.
C13_Witness ==
  \E t, u \in Threads :
    /\ pc[t] = "done" /\ result[t].kind = "Timeout" /\ result[t].msg = "read"
    /\ pc[u] = "decode"
    /\ CountCR(written) = 2
    /\ RepliesRead = 1
    /\ raw_response[u] = ReplyTo(FrameAt(written, 1))

\* C14: every invocation of communicate() eventually terminates, by a
\* result or an error, whatever the device does and however many callers
\* contend for the lock.
C14_Terminates ==
  \A t \in Contenders : (pc[t] = "acquire") ~> (pc[t] = "done")

\* C14 as amended: every invocation of communicate() eventually terminates
\* unless the device keeps sending, without end, bytes that are not the
\* terminator.
C14_TerminatesUnlessBabble ==
  \A t \in Contenders :
    \/ []<><<DeviceBabble>>_vars
    \/ (pc[t] = "acquire") ~> (pc[t] = "done")

\* The device sent part of a frame and stalled: one call has ended with the
\* read TimeoutError that reports the part, another with the lock
\* TimeoutError.
C14_Witness ==
  \E t, u \in Contenders :
    /\ pc[t] = "done" /\ result[t].kind = "Timeout" /\ result[t].msg = "read"
    /\ result[t].bytes = <<122>>
    /\ pc[u] = "done" /\ result[u] = LockTimeout

\* A call that makes a communicate() invocation with a command it can frame.
Transacts(t) == txn[t] = 1 /\ encode_ascii(cmd[t]).ok

\* C15: with a device that answers each frame with one terminated reply in
\* time, the transactions do not interleave: a frame is written only when
\* every earlier frame's reply has been read whole, the call that reads a
\* reply reads the reply to its own command, no call fails with the
\* stale-buffer error, and when all N callers are done the number of whole
\* transactions is N.
C15_OrderedAllComplete ==
  [][/\ \A t \in Threads :
          /\ (pc[t] = "write" /\ pc'[t] = "read")
             => Len(inbuf) = 0 /\ RepliesRead = CountCR(written)
          /\ (pc[t] = "read" /\ pc'[t] = "decode")
             => /\ raw_response'[t] = ReplyTo(encode_ascii(cmd[t]).bytes)
                /\ bursts' - CountCR(inbuf') = CountCR(written)
          /\ result'[t] # StaleError
     /\ (\A t \in Threads : pc'[t] = "done")
        => /\ bursts' - CountCR(inbuf') = CountCR(written')
           /\ CountCR(written')
                = Cardinality({ t \in Threads :
                                 txn'[t] = 1 /\ encode_ascii(cmd'[t]).ok })]_vars

\* C15 as amended: the same, with the number of whole transactions equal to
\* the number of callers that obtained the lock: a caller whose wait for the
\* lock times out makes no transaction.
C15_OrderedAcquirersComplete ==
  [][/\ \A t \in Threads :
          /\ (pc[t] = "write" /\ pc'[t] = "read")
             => Len(inbuf) = 0 /\ RepliesRead = CountCR(written)
          /\ (pc[t] = "read" /\ pc'[t] = "decode")
             => /\ raw_response'[t] = ReplyTo(encode_ascii(cmd[t]).bytes)
                /\ bursts' - CountCR(inbuf') = CountCR(written)
          /\ result'[t] # StaleError
     /\ (\A t \in Threads : pc'[t] = "done")
        => /\ bursts' - CountCR(inbuf') = CountCR(written')
           /\ CountCR(written')
                = Cardinality({ t \in Threads :
                                 /\ txn'[t] = 1 /\ encode_ascii(cmd'[t]).ok
                                 /\ result'[t] # LockTimeout })]_vars

\* All N callers have made their transaction, one after the other, and each
\* has the outcome of the reply to its own command.
C15_Witness ==
  /\ \A t \in Threads :
       /\ pc[t] = "done" /\ Transacts(t)
       /\ result[t].kind \in {"Returned", "Status"}
  /\ CountCR(written) = NumThreads
  /\ RepliesRead = NumThreads
  /\ \E t \in Threads : op[t] = "status" /\ result[t] = Returned(<<"1">>)
  /\ \E t \in Threads : op[t] = "action" /\ result[t].kind = "Status"

\* C16: for every string communicate() returns, issue_action_command ends in
\* exactly one of three outcomes: a returned Device Status, a Communication
\* error carrying the parsed device error code, or an Unexpected-Response
\* error; it ends in no other kind of failure.
C16_ClosedClassification ==
  pure.applied = "action"
  => \/ pure.out.kind = "Status"
     \/ pure.out.kind = "Communication" /\ pure.out.msg = "device"
     \/ pure.out.kind = "UnexpectedResponse"

\* Unread bytes in the input buffer and no transaction in flight: no call
\* is between its frame write and the end of its read loop.
StaleAtRest == Len(inbuf) > 0 /\ \A t \in Threads : pc[t] \notin {"write", "read"}

C18_LifecycleOnly ==
  /\ [](ENABLED Close \/ ENABLED Open)
  /\ [][is_open' # is_open
          => /\ lock' = lock
             /\ timeout' = timeout
             /\ threadVars' = threadVars
             /\ written' = written]_vars

\* close() has been called while another thread's transaction was in
\* flight: the port is closed, the call is still in its read loop and the
\* lock is still taken.
C18_Witness ==
  \E t \in Contenders :
    /\ ~is_open
    /\ pc[t] = "read"
    /\ ~lock_free(lock)
    /\ timeout = Timeout

\* C19: when the bytes read before the terminator hold a byte that is not
\* ASCII, the call fails with the decoding error and returns no string; the
\* terminator and the bytes before it have been taken from the input buffer,
\* and the call gave up the lock when it read the terminator, before the
\* failure: a lock still taken belongs to another call.
C19_NonAsciiFails ==
  [][\A t \in Threads :
       /\ (pc[t] = "read" /\ pc'[t] = "decode")
          => /\ Head(inbuf) = CR
             /\ inbuf' = Tail(inbuf)
             /\ raw_response'[t] = Append(raw_response[t], CR)
             /\ lock' = lock_released
       /\ (pc[t] = "decode" /\ ~lock_free(lock))
          => \E u \in Threads \ {t} : InCritical(u)
       /\ (pc[t] = "decode" /\ pc'[t] = "done"
             /\ \E i \in 1..(Len(raw_response[t]) - 1) : raw_response[t][i] >= 128)
          => /\ result'[t]
                  = UnicodeDecodeError(SubSeq(raw_response[t], 1,
                                              Len(raw_response[t]) - 1))
             /\ lock' = lock
             /\ inbuf' = inbuf]_vars

\* A call has read the byte 255 and the terminator, and has failed with the
\* decoding error; the buffer is empty and the lock free.
C19_Witness ==
  \E t \in Threads :
    /\ pc[t] = "done"
    /\ result[t] = UnicodeDecodeError(<<255>>)
    /\ inbuf = <<>>
    /\ lock_free(lock)

====
